---------------------------- MODULE Spec2Model ----------------------------
(***************************************************************************)
(* Model of pyfda's frequency specification widget (InputFreqSpecs,        *)
(* src/pyfda/input_widgets/input_freq_specs.py) and of the design button   *)
(* handler of InputParams (src/pyFDA/inputWidgets/input_params.py).        *)
(*                                                                         *)
(* Numbers.  The widget computes with Python floats.  They are modelled as *)
(* exact non-negative rationals <<numerator, denominator>> in lowest       *)
(* terms, so that "/ f_S" and "* f_S" are the real operations and the      *)
(* rounding of the display format is a real rounding.                      *)
(*                                                                         *)
(* Indices.  Python's field i (0-based) is field i+1 here.                 *)
(*                                                                         *)
(* Focus.  Qt sets the application's focus widget before it delivers       *)
(* FocusIn and clears it before it delivers FocusOut, so hasFocus() is     *)
(* True for the source inside the FocusIn and KeyPress branches of         *)
(* eventFilter and False inside the FocusOut branch.                       *)
(***************************************************************************)
EXTENDS Integers, Sequences, FiniteSets

\* ------------------------------------------------------------------ bounds
\* largest number of label / line-edit pairs update_UI is asked for
MaxFields == 3
\* the user types the numbers TypedUnit * k, k = 1 .. MaxTyped
MaxTyped == 2
\* the number the user's entries are multiples of: four significant
\* digits, so that the display format rounds it
TypedUnit == 1234

\* ------------------------------------------------------- program constants
\* significant digits of params['FMT'], e.g. '{:.3g}'
SigDigits == 3

\* frequency keys of the filter dictionary
Labels == {"F_PB", "F_SB", "F_PB2"}

\* --------------------------------------------------------------- rationals
RECURSIVE GCD(_, _)
GCD(a, b) == IF b = 0 THEN a ELSE GCD(b, a % b)

Norm(n, d) == IF n = 0 THEN <<0, 1>> ELSE <<n \div GCD(n, d), d \div GCD(n, d)>>

Rat(k) == <<k, 1>>

\* x * k, the product of line 190
RMul(x, k) == Norm(x[1] * k, x[2])

\* x / k for k # 0, the true division of line 127
RDiv(x, k) == Norm(x[1], x[2] * k)

\* x <= y, the order list.sort() uses
RLeq(x, y) == x[1] * y[2] <= y[1] * x[2]

RECURSIVE Pow10(_)
Pow10(k) == IF k = 0 THEN 1 ELSE 10 * Pow10(k - 1)

\* n/d (n > 0) rounded to SigDigits significant digits
RECURSIVE RoundSig(_, _)
RoundSig(n, d) ==
    IF n >= Pow10(SigDigits) * d
    THEN LET r == RoundSig(n, 10 * d) IN Norm(r[1] * 10, r[2])
    ELSE IF n < Pow10(SigDigits - 1) * d
    THEN LET r == RoundSig(10 * n, d) IN Norm(r[1], r[2] * 10)
    ELSE LET q == (2 * n + d) \div (2 * d) IN Norm(q, 1)

\* ------------------------------------------------------------------- texts
\* The text of a line edit: kind "num" is a number written out (val is the
\* number the text denotes), "bad" a malformed expression, "empty" the
\* empty string.
NoVal == <<0, 1>>

\* str(f_value): the number with full precision
StrFull(v) == [kind |-> "num", val |-> v]

\* params['FMT'].format(f_value): the number rounded to SigDigits digits
Fmt(v) == [kind |-> "num", val |-> IF v[1] = 0 THEN v ELSE RoundSig(v[1], v[2])]

EmptyText == [kind |-> "empty", val |-> NoVal]
BadText == [kind |-> "bad", val |-> NoVal]

\* simple_eval(text) raises for a text that is no expression
EvalRaises(t) == t.kind # "num"
\* simple_eval(text)
simple_eval(t) == t.val

\* what the user can have typed into a field
TypedTexts == {StrFull(Rat(TypedUnit * k)) : k \in 1..MaxTyped} \cup {BadText}

\* ----------------------------------------------------------------- sorting
RECURSIVE Insert(_, _)
Insert(x, s) ==
    IF s = <<>> THEN <<x>>
    ELSE IF RLeq(x, Head(s)) THEN <<x>> \o s
    ELSE <<Head(s)>> \o Insert(x, Tail(s))

\* fSpecs.sort()
RECURSIVE list_sort(_)
list_sort(s) == IF s = <<>> THEN <<>> ELSE Insert(Head(s), list_sort(Tail(s)))

IsSorted(s) == \A i \in 1..(Len(s) - 1) : RLeq(s[i], s[i + 1])

\* -------------------------------------------------------------------- state
VARIABLES
    fil,            \* fb.fil[0]: the frequency entries, f_S, freq_specs_sort
    qlabels,        \* self.qlabels: [text, visible]
    qlineedit,      \* self.qlineedit: [objectName, text, visible]
    new_labels,     \* self.new_labels
    n_cur_labels,   \* self.n_cur_labels
    spec_edited,    \* self.spec_edited
    focus,          \* the line edit that has the input focus, 0 for none
    lastOp,         \* history: the handler that ran last, [op, field, key]
    storeResult,    \* history: what _store_entry did in that handler
    emitted,        \* history: sigSpecsChanged emissions of that handler
    emitView,       \* history: <<fil, texts>> as a slot saw them at emission
    keyed,          \* history: a KeyPress came since the last FocusIn
    phase,          \* history: the events since the last FocusIn
    filAtFocusIn,   \* history: fb.fil[0] at the last FocusIn
    emitsSinceKey,  \* history: emissions since the last KeyPress began
    gD,             \* fb.gD: selFilter, zpk, coeffs
    inputs,         \* what the input widgets of InputParams hold
    myFilter,       \* self.myFilter
    callLog         \* history: the calls of the last startDesignFilt

freqVars == <<fil, qlabels, qlineedit, new_labels, n_cur_labels, spec_edited,
              focus, lastOp, storeResult, emitted, emitView, keyed,
              phase, filAtFocusIn, emitsSinceKey>>
designVars == <<gD, inputs, myFilter, callLog>>
vars == <<freqVars, designVars>>

Texts(q) == [i \in 1..Len(q) |-> q[i].text]
Names(q) == [i \in 1..Len(q) |-> q[i].objectName]

\* ---------------------------------------------------------- InputFreqSpecs
\* the displayed value of a field: line 190
f_value(f, name) == RMul(f[name], f.f_S)

\* load_entries that rounds the dictionary entries too
load_entries_writes(f, q, foc) ==
    <<[n \in DOMAIN f |-> IF n \in Labels THEN Fmt(f[n]).val ELSE f[n]],
      [i \in 1..Len(q) |->
        [q[i] EXCEPT !.text = Fmt(f_value(f, q[i].objectName))]]>>
\* load_entries: <<the dictionary, the line edits>> afterwards
load_entries(f, q, foc) ==
    <<f, [i \in 1..Len(q) |->
            [q[i] EXCEPT !.text =
                IF foc # i THEN Fmt(f_value(f, q[i].objectName))
                ELSE StrFull(f_value(f, q[i].objectName))]]>>

\* lines 260-261: fb.fil[0][name of field i] = fSpecs[i], i ascending from k
RECURSIVE WriteBack(_, _, _, _)
WriteBack(f, names, fSpecs, k) ==
    IF k > Len(names) THEN f
    ELSE WriteBack([f EXCEPT ![names[k]] = fSpecs[k]], names, fSpecs, k + 1)

\* sort_dict_freqs: <<the dictionary, the line edits>> afterwards
sort_dict_freqs(f, q, foc) ==
    LET fSpecs == [i \in 1..Len(q) |-> f[q[i].objectName]]
        f1 == IF f.freq_specs_sort
              THEN WriteBack(f, Names(q), list_sort(fSpecs), 1)
              ELSE f
    IN load_entries(f1, q, foc)

\* _hide_entries: <<qlabels, qlineedit>> afterwards
hide_entries(ql, q, num_new_labels) ==
    <<[i \in 1..Len(ql) |->
        IF i > num_new_labels THEN [ql[i] EXCEPT !.visible = FALSE] ELSE ql[i]],
      [i \in 1..Len(q) |->
        IF i > num_new_labels THEN [q[i] EXCEPT !.visible = FALSE] ELSE q[i]]>>

\* _show_entries: <<qlabels, qlineedit>> afterwards
show_entries(ql, q, n_cur, num_new_labels) ==
    IF Len(ql) < num_new_labels
    THEN <<ql \o [i \in 1..(num_new_labels - Len(ql)) |->
                    [text |-> "dummy", visible |-> TRUE]],
           q \o [i \in 1..(num_new_labels - Len(q)) |->
                    [objectName |-> "dummy", text |-> EmptyText,
                     visible |-> TRUE]]>>
    ELSE <<[i \in 1..Len(ql) |->
              IF i > n_cur /\ i <= num_new_labels
              THEN [ql[i] EXCEPT !.visible = TRUE] ELSE ql[i]],
           [i \in 1..Len(q) |->
              IF i > n_cur /\ i <= num_new_labels
              THEN [q[i] EXCEPT !.visible = TRUE] ELSE q[i]]>>

\* what one call of _store_entry leaves behind: the dictionary, the line
\* edits and the flag, and for the history the outcome, the emissions and
\* <<dictionary, texts>> as a slot saw them when the signal came
StoreOutcome(f, q, edited, result, n, view) ==
    [fil |-> f, q |-> q, spec_edited |-> edited, result |-> result,
     emitted |-> n, view |-> view]

\* _store_entry that stores the evaluated text as it is
store_entry_raw(i, edited, f, q, foc) ==
    IF ~edited
    THEN StoreOutcome(f, q, edited, "skipped", 0, <<>>)
    ELSE IF EvalRaises(q[i].text) \/ f.f_S = 0
    THEN StoreOutcome(f, q, edited, "raised", 0, <<>>)
    ELSE LET s == sort_dict_freqs(
                    [f EXCEPT ![q[i].objectName] = simple_eval(q[i].text)],
                    q, foc)
         IN StoreOutcome(s[1], s[2], FALSE, "stored", 1, <<s[1], Texts(s[2])>>)
\* _store_entry that leaves spec_edited set
store_entry_noreset(i, edited, f, q, foc) ==
    IF ~edited
    THEN StoreOutcome(f, q, edited, "skipped", 0, <<>>)
    ELSE IF EvalRaises(q[i].text) \/ f.f_S = 0
    THEN StoreOutcome(f, q, edited, "raised", 0, <<>>)
    ELSE LET s == sort_dict_freqs(
                    [f EXCEPT ![q[i].objectName] =
                        RDiv(simple_eval(q[i].text), f.f_S)], q, foc)
         IN StoreOutcome(s[1], s[2], edited, "stored", 1, <<s[1], Texts(s[2])>>)
\* _store_entry that resets spec_edited and reloads when the store fails
store_entry_cleans_up(i, edited, f, q, foc) ==
    IF ~edited
    THEN StoreOutcome(f, q, edited, "skipped", 0, <<>>)
    ELSE IF EvalRaises(q[i].text) \/ f.f_S = 0
    THEN StoreOutcome(f, load_entries(f, q, foc)[2], FALSE, "raised", 0, <<>>)
    ELSE LET s == sort_dict_freqs(
                    [f EXCEPT ![q[i].objectName] =
                        RDiv(simple_eval(q[i].text), f.f_S)], q, foc)
         IN StoreOutcome(s[1], s[2], FALSE, "stored", 1, <<s[1], Texts(s[2])>>)
\* _store_entry(event_source) for the line edit i, with self.spec_edited =
\* edited and foc the line edit that has the focus during the call
store_entry(i, edited, f, q, foc) ==
    IF ~edited
    THEN StoreOutcome(f, q, edited, "skipped", 0, <<>>)
    ELSE IF EvalRaises(q[i].text) \/ f.f_S = 0
    THEN StoreOutcome(f, q, edited, "raised", 0, <<>>)
    ELSE LET f_label == q[i].objectName
             value == RDiv(simple_eval(q[i].text), f.f_S)
             s == sort_dict_freqs([f EXCEPT ![f_label] = value], q, foc)
         IN StoreOutcome(s[1], s[2], FALSE, "stored", 1, <<s[1], Texts(s[2])>>)

NoFil == [none |-> TRUE]

\* ---------------------------------------------------------------- handlers
Keys == {"Key_Return", "Key_Enter", "Key_Escape", "Key_Other"}

Fields == 1..Len(qlineedit)

Op(op, key, field) == [op |-> op, key |-> key, field |-> field]

\* FocusIn that leaves spec_edited as it is
FocusIn_keeps_flag(i) ==
    /\ focus = 0
    /\ qlineedit[i].visible
    /\ focus' = i
    /\ \E r \in {load_entries(fil, qlineedit, i)} :
          /\ fil' = r[1]
          /\ qlineedit' = r[2]
    /\ lastOp' = Op("FocusIn", "none", i)
    /\ storeResult' = "none"
    /\ emitted' = 0
    /\ emitView' = <<>>
    /\ keyed' = FALSE
    /\ phase' = "focused"
    /\ filAtFocusIn' = fil
    /\ emitsSinceKey' = 0
    /\ UNCHANGED <<spec_edited, qlabels, new_labels, n_cur_labels, designVars>>
\* eventFilter, QEvent.FocusIn on line edit i (lines 99-101)
FocusIn(i) ==
    /\ focus = 0
    /\ qlineedit[i].visible
    /\ focus' = i
    /\ spec_edited' = FALSE
    /\ \E r \in {load_entries(fil, qlineedit, i)} :
          /\ fil' = r[1]
          /\ qlineedit' = r[2]
    /\ lastOp' = Op("FocusIn", "none", i)
    /\ storeResult' = "none"
    /\ emitted' = 0
    /\ emitView' = <<>>
    /\ keyed' = FALSE
    /\ phase' = "focused"
    /\ filAtFocusIn' = fil
    /\ emitsSinceKey' = 0
    /\ UNCHANGED <<qlabels, new_labels, n_cur_labels, designVars>>

\* eventFilter, QEvent.KeyPress with Key_Return or Key_Enter on the focused
\* line edit i (lines 102-106)
KeyReturn(i, key) ==
    /\ focus = i
    /\ key \in {"Key_Return", "Key_Enter"}
    /\ \E st \in {store_entry(i, TRUE, fil, qlineedit, focus)} :
          /\ fil' = st.fil
          /\ qlineedit' = st.q
          /\ spec_edited' = st.spec_edited
          /\ storeResult' = st.result
          /\ emitted' = st.emitted
          /\ emitView' = st.view
          /\ emitsSinceKey' = st.emitted
    /\ lastOp' = Op("KeyPress", key, i)
    /\ keyed' = TRUE
    /\ phase' = "other"
    /\ filAtFocusIn' = NoFil
    /\ UNCHANGED <<focus, qlabels, new_labels, n_cur_labels, designVars>>

\* KeyPress with Key_Escape that leaves spec_edited set by line 103
KeyEscape_keeps_flag(i) ==
    /\ focus = i
    /\ \E r \in {load_entries(fil, qlineedit, focus)} :
          /\ fil' = r[1]
          /\ qlineedit' = r[2]
    /\ spec_edited' = TRUE
    /\ lastOp' = Op("KeyPress", "Key_Escape", i)
    /\ storeResult' = "none"
    /\ emitted' = 0
    /\ emitView' = <<>>
    /\ emitsSinceKey' = 0
    /\ keyed' = TRUE
    /\ phase' = IF phase = "other" THEN "other" ELSE "escaped"
    /\ UNCHANGED <<filAtFocusIn, focus, qlabels, new_labels, n_cur_labels,
                   designVars>>
\* eventFilter, QEvent.KeyPress with Key_Escape on the focused line edit i
\* (lines 102-104, 107-109)
KeyEscape(i) ==
    /\ focus = i
    /\ \E r \in {load_entries(fil, qlineedit, focus)} :
          /\ fil' = r[1]
          /\ qlineedit' = r[2]
    /\ spec_edited' = FALSE
    /\ lastOp' = Op("KeyPress", "Key_Escape", i)
    /\ storeResult' = "none"
    /\ emitted' = 0
    /\ emitView' = <<>>
    /\ emitsSinceKey' = 0
    /\ keyed' = TRUE
    /\ phase' = IF phase = "other" THEN "other" ELSE "escaped"
    /\ UNCHANGED <<filAtFocusIn, focus, qlabels, new_labels, n_cur_labels,
                   designVars>>

\* eventFilter, QEvent.KeyPress with any other key on the focused line edit
\* i (lines 102-104); the line edit then takes the key and its text becomes t
KeyOther(i, t) ==
    /\ focus = i
    /\ spec_edited' = TRUE
    /\ qlineedit' = [qlineedit EXCEPT ![i].text = t]
    /\ lastOp' = Op("KeyPress", "Key_Other", i)
    /\ storeResult' = "none"
    /\ emitted' = 0
    /\ emitView' = <<>>
    /\ emitsSinceKey' = 0
    /\ keyed' = TRUE
    /\ phase' = IF phase = "other" THEN "other" ELSE "focused"
    /\ UNCHANGED <<fil, filAtFocusIn, focus, qlabels, new_labels,
                   n_cur_labels, designVars>>

\* eventFilter, QEvent.KeyPress on line edit i with key (lines 102-109)
KeyPress(i, key, t) ==
    \/ KeyReturn(i, key)
    \/ key = "Key_Escape" /\ KeyEscape(i)
    \/ key = "Key_Other" /\ KeyOther(i, t)

\* eventFilter, QEvent.FocusOut on the focused line edit i (lines 111-112)
FocusOut(i) ==
    /\ focus = i
    /\ focus' = 0
    /\ \E st \in {store_entry(i, spec_edited, fil, qlineedit, 0)} :
          /\ fil' = st.fil
          /\ qlineedit' = st.q
          /\ spec_edited' = st.spec_edited
          /\ storeResult' = st.result
          /\ emitted' = st.emitted
          /\ emitView' = st.view
          /\ emitsSinceKey' = emitsSinceKey + st.emitted
    /\ lastOp' = Op("FocusOut", "none", i)
    /\ UNCHANGED <<keyed, phase, filAtFocusIn>>
    /\ UNCHANGED <<qlabels, new_labels, n_cur_labels, designVars>>

\* what a call that is no event of a line edit leaves in the history
External(op) ==
    /\ lastOp' = Op(op, "none", 0)
    /\ storeResult' = "none"
    /\ emitted' = 0
    /\ emitView' = <<>>
    /\ phase' = "other"
    /\ filAtFocusIn' = NoFil
    /\ UNCHANGED <<spec_edited, focus, keyed, emitsSinceKey, designVars>>

\* rt_label(label): the rich text of a label
rt_label(l) == <<"rt_label", l>>

\* the label lists of the filter designs: distinct frequency keys, in the
\* order the response type asks for
DesignLabels ==
    {<<>>, <<"F_PB">>, <<"F_PB", "F_SB">>, <<"F_SB", "F_PB">>,
     <<"F_PB", "F_SB", "F_PB2">>, <<"F_PB2", "F_PB">>}

\* the label lists update_UI is called with
LabelLists == {s \in DesignLabels : Len(s) <= MaxFields}

\* lines 159-164: labels, texts and object names of the first fields
SetFields(ql, q, f, labels) ==
    <<[i \in 1..Len(ql) |->
        IF i <= Len(labels)
        THEN [ql[i] EXCEPT !.text = rt_label(labels[i])] ELSE ql[i]],
      [i \in 1..Len(q) |->
        IF i <= Len(labels)
        THEN [q[i] EXCEPT !.text = StrFull(f[labels[i]]),
                          !.objectName = labels[i]]
        ELSE q[i]]>>

\* lines 147-153: <<qlabels, qlineedit>> with the entries hidden or shown
Resize(ql, q, n_cur, num_new_labels) ==
    IF num_new_labels < n_cur THEN hide_entries(ql, q, num_new_labels)
    ELSE IF num_new_labels > n_cur
    THEN show_entries(ql, q, n_cur, num_new_labels)
    ELSE <<ql, q>>

\* update_UI(new_labels), called while no line edit that it hides has the
\* focus (a hidden widget cannot keep the focus)
update_UI(labels) ==
    /\ focus <= Len(labels)
    /\ \E w \in {Resize(qlabels, qlineedit, n_cur_labels, Len(labels))} :
       \E u \in {SetFields(w[1], w[2], fil, labels)} :
       \E s \in {sort_dict_freqs(fil, u[2], focus)} :
          /\ new_labels' = labels
          /\ qlabels' = u[1]
          /\ n_cur_labels' = Len(labels)
          /\ fil' = s[1]
          /\ qlineedit' = s[2]
    /\ External("update_UI")

\* load_entries() called from outside the widget (lines 179-183)
LoadEntries ==
    /\ \E r \in {load_entries(fil, qlineedit, focus)} :
          /\ fil' = r[1]
          /\ qlineedit' = r[2]
    /\ External("load_entries")
    /\ UNCHANGED <<qlabels, new_labels, n_cur_labels>>

\* the values another widget sets the sampling frequency to
FSValues == {0, 2}

\* another widget sets the sampling frequency and calls load_entries
\* (lines 176-180)
SetFS(fs) ==
    /\ fs # fil.f_S
    /\ \E r \in {load_entries([fil EXCEPT !.f_S = fs], qlineedit, focus)} :
          /\ fil' = r[1]
          /\ qlineedit' = r[2]
    /\ External("set_f_S")
    /\ UNCHANGED <<qlabels, new_labels, n_cur_labels>>

\* the sort button of input_specs sets freq_specs_sort and calls
\* sort_dict_freqs (line 252)
SortButton(b) ==
    /\ b # fil.freq_specs_sort
    /\ \E s \in {sort_dict_freqs([fil EXCEPT !.freq_specs_sort = b],
                                 qlineedit, focus)} :
          /\ fil' = s[1]
          /\ qlineedit' = s[2]
    /\ External("sort_button")
    /\ UNCHANGED <<qlabels, new_labels, n_cur_labels>>

\* -------------------------------------------------------------- InputParams
\* largest value an input widget of InputParams holds
MaxSpec == 1

ResponseTypes == {"LP", "HP"}
DesignMethods == {"cheby1", "equiripple"}
FilterOrders == {"man", "min"}

\* numpy values: a one-dimensional array, and a pair of arrays
Array(xs) == [kind |-> "array", items |-> xs]
Pair(x, y) == [kind |-> "pair", items |-> <<x, y>>]

\* np.ndim
RECURSIVE ndim(_)
ndim(c) == IF c.kind = "array" THEN 1 ELSE 1 + ndim(c.items[1])

NoArray == Array(<<>>)
NoSel == [none |-> TRUE]

\* what the unseen design methods can leave in the filter object: an FIR
\* design leaves the b coefficients, an IIR design the pair [b, a] with b
\* and a of equal length
DesignResults ==
    {[zpk |-> z, coeffs |-> c] :
        z \in {<<"z1", "p1", 1>>, <<"z2", "p2", 2>>},
        c \in {Array(<<1, 2>>), Array(<<3>>),
               Pair(Array(<<1, 2>>), Array(<<1, 3>>))}}

\* the update methods of the input widgets, in the order writeAll calls
\* them: each writes what its widget holds to fb.gD['selFilter']
fo_update(sel, inp) == [sel EXCEPT !.fo = inp.fo]
fspec_update(sel, inp) == [sel EXCEPT !.fspec = inp.fspec]
aspec_update(sel, inp) == [sel EXCEPT !.aspec = inp.aspec]
wspec_update(sel, inp) == [sel EXCEPT !.wspec = inp.wspec]

\* writeAll: fb.gD['selFilter'] afterwards
writeAll(sel, inp) ==
    wspec_update(aspec_update(fspec_update(fo_update(sel, inp), inp), inp), inp)

\* self.ffr.objectWizzard(dm): a new filter object of design method dm
objectWizzard(dm) ==
    [dm |-> dm, method |-> <<>>, arg |-> NoSel, zpk |-> <<>>,
     coeffs |-> NoArray]

\* getattr(obj, rt + fo)(sel), the unseen design leaving result r
design(obj, rt, fo, sel, r) ==
    [obj EXCEPT !.method = <<rt, fo>>, !.arg = sel, !.zpk = r.zpk,
                !.coeffs = r.coeffs]

\* lines 188-192: fb.gD['coeffs'] for the coefficients the object holds
read_coeffs(c) == IF ndim(c) = 1 THEN Pair(c, Array(<<1>>)) ELSE c

\* startDesignFilt designing before writeAll
startDesignFilt_stale ==
    \E r \in DesignResults :
        LET sel0 == gD.selFilter
            obj1 == design(objectWizzard(sel0.dm), sel0.rt, sel0.fo, sel0, r)
            sel1 == writeAll(sel0, inputs)
        IN /\ myFilter' = obj1
           /\ gD' = [selFilter |-> sel1, zpk |-> obj1.zpk,
                     coeffs |-> read_coeffs(obj1.coeffs)]
           /\ callLog' = <<[call |-> "design", sel |-> sel0],
                           [call |-> "writeAll", sel |-> sel1],
                           [call |-> "read", sel |-> sel1]>>
           /\ UNCHANGED <<inputs, freqVars>>
\* startDesignFilt: the design button's handler.  callLog keeps, for each
\* of its three stages in the order they run, fb.gD['selFilter'] after it.
startDesignFilt ==
    \E r \in DesignResults :
        LET sel1 == writeAll(gD.selFilter, inputs)
            obj == objectWizzard(sel1.dm)
            obj1 == design(obj, sel1.rt, sel1.fo, sel1, r)
            sel2 == fo_update(sel1, inputs)
        IN /\ myFilter' = obj1
           /\ gD' = [selFilter |-> sel2, zpk |-> obj1.zpk,
                     coeffs |-> read_coeffs(obj1.coeffs)]
           /\ callLog' = <<[call |-> "writeAll", sel |-> sel1],
                           [call |-> "design", sel |-> sel1],
                           [call |-> "read", sel |-> sel2]>>
           /\ UNCHANGED <<inputs, freqVars>>

\* the user changes what an input widget holds
EditInput(w, v) ==
    /\ inputs[w] # v
    /\ inputs' = [inputs EXCEPT ![w] = v]
    /\ callLog' = <<>>
    /\ UNCHANGED <<gD, myFilter, freqVars>>

\* the user selects a response type and a design method in SelectFilter,
\* which writes them to fb.gD['selFilter']; chooseDesignMethod then runs
\* self.fo.update() (line 144)
chooseDesignMethod(rt, dm) ==
    /\ <<rt, dm>> # <<gD.selFilter.rt, gD.selFilter.dm>>
    /\ gD' = [gD EXCEPT !.selFilter =
                fo_update([gD.selFilter EXCEPT !.rt = rt, !.dm = dm], inputs)]
    /\ callLog' = <<>>
    /\ UNCHANGED <<inputs, myFilter, freqVars>>

\* ------------------------------------------------------------ specifications
InitFreq ==
    /\ fil = [F_PB |-> Rat(TypedUnit), F_SB |-> RDiv(Rat(TypedUnit), 2),
              F_PB2 |-> Rat(TypedUnit), f_S |-> 2,
              freq_specs_sort |-> FALSE]
    /\ qlabels = <<>>
    /\ qlineedit = <<>>
    /\ new_labels = <<>>
    /\ n_cur_labels = 0
    /\ spec_edited = FALSE
    /\ focus = 0
    /\ lastOp = Op("init", "none", 0)
    /\ storeResult = "none"
    /\ emitted = 0
    /\ emitView = <<>>
    /\ keyed = FALSE
    /\ phase = "other"
    /\ filAtFocusIn = NoFil
    /\ emitsSinceKey = 0

InitDesign ==
    /\ gD = [selFilter |-> [rt |-> "LP", dm |-> "cheby1", fo |-> "man",
                            fspec |-> 0, aspec |-> 0, wspec |-> 0],
             zpk |-> <<>>, coeffs |-> NoArray]
    /\ inputs = [fo |-> "man", fspec |-> 0, aspec |-> 0, wspec |-> 0]
    /\ myFilter = objectWizzard("none")
    /\ callLog = <<>>

Init == InitFreq /\ InitDesign

Next ==
    \/ \E i \in Fields : FocusIn(i)
    \/ \E i \in Fields, key \in Keys, t \in TypedTexts : KeyPress(i, key, t)
    \/ \E i \in Fields : FocusOut(i)
    \/ \E labels \in LabelLists : update_UI(labels)
    \/ LoadEntries
    \/ \E fs \in FSValues : SetFS(fs)
    \/ \E b \in BOOLEAN : SortButton(b)

Spec == Init /\ [][Next]_vars

NextDesign ==
    \/ startDesignFilt
    \/ \E v \in FilterOrders : EditInput("fo", v)
    \/ \E w \in {"fspec", "aspec", "wspec"}, v \in 0..MaxSpec : EditInput(w, v)
    \/ \E rt \in ResponseTypes, dm \in DesignMethods : chooseDesignMethod(rt, dm)

SpecDesign == Init /\ [][NextDesign]_vars

\* ------------------------------------------------------------------ claims
\* the dictionary values of the current fields, in field order
FieldValues == [i \in 1..n_cur_labels |-> fil[qlineedit[i].objectName]]

\* the last handler stored an edited field
Stored == storeResult = "stored"

\* C1, as claimed: once a store of an edited field has completed, the
\* dictionary holds under the field's label the evaluated text of the field
\* divided by f_S.
C1_StoredNormalized ==
    [][Stored' =>
        LET src == qlineedit[lastOp'.field]
        IN fil'[src.objectName] = RDiv(simple_eval(src.text), fil.f_S)]_vars

\* C1, amended: the same, for stores made while freq_specs_sort is false
\* (with freq_specs_sort true the sort that ends the store may move the
\* value to the label of another field).
C1_StoredNormalizedUnsorted ==
    [][(Stored' /\ ~fil.freq_specs_sort) =>
        LET src == qlineedit[lastOp'.field]
        IN fil'[src.objectName] = RDiv(simple_eval(src.text), fil.f_S)]_vars

\* C1 witness: a store on FocusOut has completed, unsorted, with f_S = 2
C1_Witness ==
    /\ Stored
    /\ lastOp.op = "FocusOut"
    /\ ~fil.freq_specs_sort
    /\ fil.f_S = 2
    /\ fil[qlineedit[lastOp.field].objectName] = RDiv(Rat(TypedUnit), 2)

\* C2: load_entries leaves fb.fil[0] (f_S and the frequency entries) and
\* spec_edited as they were, whatever the dictionary and the focus.
C2_LoadEntriesFrame ==
    [][lastOp'.op = "load_entries" =>
        (fil' = fil /\ spec_edited' = spec_edited)]_vars

\* C2 witness: load_entries ran while an edited field had the focus and
\* f_S was not the initial one
C2_Witness ==
    /\ lastOp.op = "load_entries"
    /\ focus # 0
    /\ spec_edited
    /\ fil.f_S = 0

\* C3: a FocusIn, and a FocusOut with no KeyPress since the field's
\* FocusIn, leave the dictionary unchanged and emit no sigSpecsChanged.
C3_UneditedFrame ==
    [][(lastOp'.op \in {"FocusIn", "FocusOut"} /\ ~keyed') =>
        (fil' = fil /\ emitted' = 0 /\ ~Stored')]_vars

\* C3 witness: a field lost the focus with no key pressed in it
C3_Witness ==
    /\ lastOp.op = "FocusOut"
    /\ ~keyed
    /\ storeResult = "skipped"

\* C4, as claimed: while freq_specs_sort is true, after update_UI, after the
\* sort button and after a completed store the dictionary values of the
\* current fields, in field order, are non-decreasing.
C4_AscendingOrder ==
    (fil.freq_specs_sort /\ (Stored \/ lastOp.op \in {"update_UI", "sort_button"}))
        => IsSorted(FieldValues)

\* C5, as claimed: after update_UI exactly the first len(new_labels) pairs
\* are visible, field i carries the object name new_labels[i], and
\* n_cur_labels is len(new_labels).
C5_VisibleFields ==
    lastOp.op = "update_UI" =>
        /\ n_cur_labels = Len(new_labels)
        /\ Len(qlabels) = Len(qlineedit)
        /\ \A i \in 1..Len(qlineedit) :
              /\ qlineedit[i].visible = (i <= Len(new_labels))
              /\ qlabels[i].visible = (i <= Len(new_labels))
              /\ i <= Len(new_labels) => qlineedit[i].objectName = new_labels[i]

\* the displayed text of field i agrees with the dictionary, rounded
ShowsRounded(i) ==
    qlineedit[i].text = Fmt(f_value(fil, qlineedit[i].objectName))
\* the displayed text of field i agrees with the dictionary, in full
ShowsFull(i) ==
    qlineedit[i].text = StrFull(f_value(fil, qlineedit[i].objectName))

\* C6: Escape in a focused field clears spec_edited and reloads the field's
\* text from the dictionary; a FocusOut that follows FocusIn, key presses
\* other than Return/Enter, and a last Escape leaves fb.fil[0] as it was at
\* the FocusIn and emits no sigSpecsChanged.
C6_EscapeReverts ==
    /\ lastOp.key = "Key_Escape" => (~spec_edited /\ ShowsFull(lastOp.field))
    /\ (lastOp.op = "FocusOut" /\ phase = "escaped") =>
          (fil = filAtFocusIn /\ emitted = 0 /\ ~Stored)

\* C6 witness: the field has lost the focus after an edit and an Escape
C6_Witness ==
    /\ lastOp.op = "FocusOut"
    /\ phase = "escaped"
    /\ keyed
    /\ fil.f_S # 0

\* C7, as claimed: a field that has lost the focus displays the stored value
\* times f_S in the rounded display format, edited or not.
C7_RoundedOnFocusOut == lastOp.op = "FocusOut" => ShowsRounded(lastOp.field)

\* C8: a store emits sigSpecsChanged exactly once, when the dictionary is
\* updated and sorted and the texts are reloaded, and leaves spec_edited
\* False; no other handler emits; so at most one emission follows a key
\* press (Return and then FocusOut emit once).
C8_EmitsOnce ==
    /\ Stored => (emitted = 1 /\ emitView = <<fil, Texts(qlineedit)>>
                  /\ ~spec_edited)
    /\ ~Stored => emitted = 0
    /\ emitsSinceKey <= 1

\* C8 witness: Return stored and emitted, then the field lost the focus
\* without a second store
C8_Witness ==
    /\ lastOp.op = "FocusOut"
    /\ storeResult = "skipped"
    /\ emitsSinceKey = 1

\* C9: a store of an edited field whose text does not evaluate, or with
\* f_S = 0, raises and leaves the dictionary and the texts unchanged, emits
\* nothing and leaves spec_edited True.
C9_FailedStoreFrame ==
    [][LET i == lastOp'.field
           attempted == \/ lastOp'.op = "FocusOut" /\ spec_edited
                        \/ lastOp'.key \in {"Key_Return", "Key_Enter"}
           fails == EvalRaises(qlineedit[i].text) \/ fil.f_S = 0
       IN /\ (attempted /\ fails) <=> storeResult' = "raised"
          /\ storeResult' = "raised" =>
                /\ fil' = fil
                /\ qlineedit' = qlineedit
                /\ emitted' = 0
                /\ spec_edited']_vars

\* C9 witness: the store of a malformed text failed on FocusOut
C9_Witness ==
    /\ storeResult = "raised"
    /\ lastOp.op = "FocusOut"
    /\ qlineedit[lastOp.field].text = BadText
    /\ fil.f_S # 0
    /\ spec_edited

\* C10: startDesignFilt runs writeAll first, then the method rt + fo of the
\* object of design method dm with the written fb.gD['selFilter'], and then
\* reads back zpk and coeffs, the coeffs of an FIR design paired with [1].
C10_DesignOrder ==
    callLog # <<>> =>
        /\ callLog[1].call = "writeAll"
        /\ callLog[1].sel = writeAll(callLog[1].sel, inputs)
        /\ callLog[2].call = "design"
        /\ myFilter.dm = callLog[1].sel.dm
        /\ myFilter.method = <<callLog[1].sel.rt, callLog[1].sel.fo>>
        /\ myFilter.arg = callLog[1].sel
        /\ callLog[3].call = "read"
        /\ gD.selFilter = callLog[3].sel
        /\ gD.zpk = myFilter.zpk
        /\ gD.coeffs.kind = "pair"
        /\ Len(gD.coeffs.items) = 2
        /\ \A k \in 1..2 : gD.coeffs.items[k].kind = "array"
        /\ IF myFilter.coeffs.kind = "array"
           THEN gD.coeffs = Pair(myFilter.coeffs, Array(<<1>>))
           ELSE gD.coeffs = myFilter.coeffs

\* C10 witness: an FIR design has run on specifications that writeAll wrote
C10_Witness ==
    /\ callLog # <<>>
    /\ myFilter.coeffs.kind = "array"
    /\ myFilter.arg.fspec = 1
    /\ myFilter.arg.fo = "min"
    /\ myFilter.method = <<"HP", "min">>

=============================================================================
